---- MODULE Spec2Model ----
(***************************************************************************)
(* Lexically constrained beam search (sockeye/lexical_constraints.py):     *)
(* the ConstrainedHypothesis state machine, the bank allocator             *)
(* get_bank_sizes and the beam step selector topk.                         *)
(*                                                                         *)
(* Python lists are modelled as TLA+ sequences.  Indices kept in the state *)
(* (lastMet, the loop index of get_bank_sizes, rows, columns) are the      *)
(* 0-based Python indices; At/PyAt translate them.                         *)
(***************************************************************************)
EXTENDS Integers, Sequences, FiniteSets, TLC

\* ---------------------------------------------------------------- bounds
VocabSize == 3
MaxPhrases == 2
MaxSize == 3
MaxSteps == 3
MaxConstraints == 2
MaxBeam == 4
MaxCand == 5
BeamSize == 2
TopkMaxSize == 2
MaxScore == 1

Vocab == 0..(VocabSize - 1)
\* the end-of-sequence id handed to the constructor: the last word of the vocabulary
EosId == VocabSize - 1

VARIABLES
    cl,      \* the raw constraint list handed to ConstrainedHypothesis.__init__
    heap,    \* the ConstrainedHypothesis objects created so far (reference = index)
    cur,     \* reference of the hypothesis the decoder currently holds (0: none)
    hist,    \* the words advance was called with, in order, to reach cur
    hpc,     \* "new" | "ready" | "raised" ("off" outside the hypothesis machine)
    \* get_bank_sizes
    num_constraints, beam_size, candidates,   \* its arguments
    assigned,   \* the list being built
    bi,         \* i of the outer for loop
    deficit,
    jpos,       \* position of the inner for loop in its sorted list
    bpc,        \* "start" | "for" | "while" | "forj" | "done" ("off" outside get_bank_sizes)
    \* topk
    hypotheses, inactive, scores, best,   \* its arguments (best: the rows, columns and
                                          \* scores of best_ids, best_word_ids, sequence_scores)
    new_kbest, bank_sizes, pruned,        \* its locals when it returns
    out,        \* what it returns: the four parallel lists
    tpc         \* "call" | "returned" | "raised" | "hangs" ("off" outside topk)

hvars == <<cl, heap, cur, hist, hpc>>
bvars == <<num_constraints, beam_size, candidates, assigned, bi, deficit, jpos, bpc>>
tvars == <<hypotheses, inactive, scores, best, new_kbest, bank_sizes, pruned, out, tpc>>
vars == <<hvars, bvars, tvars>>

\* ---------------------------------------------------------------- Python lists
At(s, i) == s[i + 1]
\* Python indexing: a negative index counts from the end of the list
PyAt(s, i) == IF i < 0 THEN s[Len(s) + i + 1] ELSE s[i + 1]
SetAt(s, i, v) == [s EXCEPT ![i + 1] = v]
Repeat(v, n) == [k \in 1..n |-> v]

RECURSIVE SumSeq(_)
SumSeq(s) == IF s = <<>> THEN 0 ELSE Head(s) + SumSeq(Tail(s))

RECURSIVE Flatten(_)
Flatten(ps) == IF ps = <<>> THEN <<>> ELSE Head(ps) \o Flatten(Tail(ps))

\* ---------------------------------------------------------------- ConstrainedHypothesis
\* __init__: the loop over the phrases.  `is_sequence[-1] = 0` on an empty list
\* raises IndexError, which leaves the constructor.
RECURSIVE InitLoop(_, _, _)
InitLoop(ps, constraints, is_sequence) ==
    IF ps = <<>> THEN [raised |-> FALSE, constraints |-> constraints, is_sequence |-> is_sequence]
    ELSE LET phrase == Head(ps)
             c2 == constraints \o phrase
             s2 == is_sequence \o Repeat(1, Len(phrase))
         IN  IF s2 = <<>> THEN [raised |-> TRUE, constraints |-> c2, is_sequence |-> s2]
             ELSE InitLoop(Tail(ps), c2, SetAt(s2, Len(s2) - 1, 0))

New(constraint_list, eos_id) ==
    LET r == InitLoop(constraint_list, <<>>, <<>>)
    IN  IF r.raised THEN [raised |-> TRUE]
        ELSE [raised |-> FALSE,
              obj |-> [cls |-> "ConstrainedHypothesis",
                       constraints |-> r.constraints,
                       is_sequence |-> r.is_sequence,
                       eos_id |-> eos_id,
                       met |-> Repeat(FALSE, Len(r.constraints)),
                       lastMet |-> -1]]

\* NullHypothesis.__init__: the base constructor on ([], []) with eos_id 0
NewNull ==
    LET r == New(<<<<>>, <<>>>>, 0)
    IN  IF r.raised THEN r ELSE [r EXCEPT !.obj.cls = "NullHypothesis"]

size(o) == Len(o.constraints)
numMet(o) == Cardinality({i \in 1..Len(o.met) : o.met[i]})
numNeeded(o) == size(o) - numMet(o)
\* NullHypothesis overrides finished and isValid
finished(o) == IF o.cls = "NullHypothesis" THEN TRUE ELSE numNeeded(o) = 0

\* the test both allowed and advance start with
MidPhrase(o) == o.lastMet # -1 /\ PyAt(o.is_sequence, o.lastMet) = 1

\* whether position i (0-based) is a non-initial position of a phrase:
\* the i-th entry of [0] + is_sequence[:-1]
NonInitialNever(o, i) == 0
NonInitial(o, i) == IF i = 0 THEN 0 ELSE At(o.is_sequence, i - 1)

RECURSIVE AllowedFrom(_, _)
AllowedFrom(o, i) ==
    IF i >= size(o) THEN <<>>
    ELSE (IF At(o.met, i) = FALSE /\ (i = 0 \/ At(o.is_sequence, i - 1) = 0)
          THEN <<At(o.constraints, i)>> ELSE <<>>) \o AllowedFrom(o, i + 1)

allowed(o) ==
    IF MidPhrase(o) THEN <<At(o.constraints, o.lastMet + 1)>>
    ELSE AllowedFrom(o, 0)

isValidDropFinished(o, wordid) == wordid # o.eos_id
isValid(o, wordid) ==
    IF o.cls = "NullHypothesis" THEN FALSE ELSE finished(o) \/ wordid # o.eos_id

\* the back-out loop of advance: `while obj.is_sequence[index]` with Python indexing
BackOutAll(is_sequence, met, index) == [k \in 1..Len(met) |-> FALSE]
BackOutNone(is_sequence, met, index) == met
BackOutOne(is_sequence, met, index) == SetAt(met, index, FALSE)
RECURSIVE BackOut(_, _, _)
BackOut(is_sequence, met, index) ==
    IF PyAt(is_sequence, index) = 1
    THEN BackOut(is_sequence, SetAt(met, IF index < 0 THEN Len(met) + index ELSE index, FALSE), index - 1)
    ELSE met

\* l.index((word_id, 0, 0)): the first position whose tuple equals the query,
\* -1 when list.index raises ValueError (swallowed by the bare except)
RECURSIVE IndexOfLast(_, _, _)
IndexOfLast(o, word_id, i) ==
    IF i >= size(o) THEN -1
    ELSE LET later == IndexOfLast(o, word_id, i + 1)
         IN  IF later # -1 THEN later
             ELSE IF At(o.constraints, i) = word_id /\ NonInitial(o, i) = 0 /\ At(o.met, i) = FALSE
                  THEN i
                  ELSE -1
RECURSIVE IndexOfIgnoreMet(_, _, _)
IndexOfIgnoreMet(o, word_id, i) ==
    IF i >= size(o) THEN -1
    ELSE IF At(o.constraints, i) = word_id /\ NonInitial(o, i) = 0
         THEN i
         ELSE IndexOfIgnoreMet(o, word_id, i + 1)
RECURSIVE IndexOf(_, _, _)
IndexOf(o, word_id, i) ==
    IF i >= size(o) THEN -1
    ELSE IF At(o.constraints, i) = word_id /\ NonInitial(o, i) = 0 /\ At(o.met, i) = FALSE
         THEN i
         ELSE IndexOf(o, word_id, i + 1)

\* advance, after the deep copy: what is done to obj
AdvanceObj(obj, word_id) ==
    IF MidPhrase(obj)
    THEN IF word_id = At(obj.constraints, obj.lastMet + 1)
         THEN [obj EXCEPT !.met = SetAt(obj.met, obj.lastMet + 1, TRUE),
                          !.lastMet = obj.lastMet + 1]
         ELSE [obj EXCEPT !.met = BackOut(obj.is_sequence, obj.met, obj.lastMet),
                          !.lastMet = -1]
    ELSE LET pos == IndexOf(obj, word_id, 0)
         IN  IF pos # -1
             THEN [obj EXCEPT !.met = SetAt(obj.met, pos, TRUE), !.lastMet = pos]
             ELSE obj

\* copy.deepcopy(self): a new object with its own met list
DeepCopyAlias(h, self) == [heap |-> h, ref |-> self]
DeepCopy(h, self) == [heap |-> Append(h, h[self]), ref |-> Len(h) + 1]

\* self.advance(word_id) on the object store: the store afterwards and the
\* reference returned
advance(h, self, word_id) ==
    LET c == DeepCopy(h, self)
    IN  [heap |-> [c.heap EXCEPT ![c.ref] = AdvanceObj(c.heap[c.ref], word_id)],
         ref |-> c.ref]

\* ---------------------------------------------------------------- inputs
Size(ps) == Len(Flatten(ps))
PhrasesUpTo(n) == UNION {[1..k -> Vocab] : k \in 0..n}

RECURSIVE ListsOf(_, _)
ListsOf(k, n) ==
    IF k = 0 THEN {<<>>}
    ELSE UNION {{Append(l, p) : p \in PhrasesUpTo(n - Size(l))} : l \in ListsOf(k - 1, n)}

ConstraintLists == UNION {ListsOf(k, MaxSize) : k \in 0..MaxPhrases}

\* ---------------------------------------------------------------- get_bank_sizes
Min(a, b) == IF a < b THEN a ELSE b
Abs(a) == IF a < 0 THEN -a ELSE a

\* lines 193-198: the even split, the remainder going to the last bank
BaseAssigned(nc, beam) ==
    LET num_banks == nc + 1
        bank_size == beam \div num_banks
        remainder == beam - bank_size * num_banks
    IN  [k \in 1..num_banks |-> IF k = num_banks THEN bank_size + remainder ELSE bank_size]

\* sorted(list(range(i - 1, -1, -1)) + list(range(i + 1, n)), key=lambda x: abs(x - i)):
\* the sort is stable, so at equal distance the lower index comes first
OrderByIndex(i, n) == [k \in 1..(n - 1) |-> IF k - 1 < i THEN k - 1 ELSE k]
RECURSIVE OrderFrom(_, _, _)
OrderFrom(i, n, d) ==
    IF d > n THEN <<>>
    ELSE (IF i - d >= 0 THEN <<i - d>> ELSE <<>>)
         \o (IF i + d < n THEN <<i + d>> ELSE <<>>)
         \o OrderFrom(i, n, d + 1)
Order(i, n) == OrderFrom(i, n, 1)

TransferDeficit(d, capacity) == Abs(d)
TransferAll(d, capacity) == capacity
Transfer(d, capacity) == Min(Abs(d), capacity)

\* lines 206-211: the body of the inner loop for one j
JStep(cands, st, i, j) ==
    LET capacity == At(cands, j) - At(st.assigned, j)
    IN  IF capacity > 0
        THEN LET transfer == Transfer(st.deficit, capacity)
             IN  [deficit |-> st.deficit + transfer,
                  assigned |-> SetAt(SetAt(st.assigned, i, At(st.assigned, i) - transfer),
                                     j, At(st.assigned, j) + transfer)]
        ELSE st

BankOff ==
    /\ num_constraints = 0
    /\ beam_size = 0
    /\ candidates = <<>>
    /\ assigned = <<>>
    /\ bi = 0
    /\ deficit = 0
    /\ jpos = 0
    /\ bpc = "off"

\* get_bank_sizes as a function: the returned list, or hangs when a round of
\* the while loop changes nothing (the loop then repeats that round for ever)
RECURSIVE Pass(_, _, _, _, _)
Pass(cands, st, i, order, k) ==
    IF k >= Len(order) THEN st
    ELSE Pass(cands, JStep(cands, st, i, At(order, k)), i, order, k + 1)

RECURSIVE WhileLoop(_, _, _)
WhileLoop(cands, st, i) ==
    IF st.deficit >= 0 THEN [hangs |-> FALSE, assigned |-> st.assigned]
    ELSE LET st2 == Pass(cands, st, i, Order(i, Len(st.assigned)), 0)
         IN  IF st2 = st THEN [hangs |-> TRUE] ELSE WhileLoop(cands, st2, i)

RECURSIVE ForLoop(_, _, _)
ForLoop(cands, asg, i) ==
    IF i >= Len(asg) THEN [hangs |-> FALSE, assigned |-> asg]
    ELSE LET w == WhileLoop(cands, [deficit |-> At(cands, i) - At(asg, i), assigned |-> asg], i)
         IN  IF w.hangs THEN w ELSE ForLoop(cands, w.assigned, i + 1)

get_bank_sizes(nc, beam, cands) == ForLoop(cands, BaseAssigned(nc, beam), 0)

\* ---------------------------------------------------------------- topk
Rows == 0..(BeamSize - 1)
Inf == MaxScore + 1

Candidate(row, col, score, constraints) ==
    [row |-> row, col |-> col, score |-> score, constraints |-> constraints]

\* set.add with Candidate.__eq__/__hash__ on (row, col): an equal element that
\* is already in the set stays.  The set is kept in insertion order.
AddCandAlways(cs, c) == Append(cs, c)
AddCand(cs, c) ==
    IF \E k \in 1..Len(cs) : cs[k].row = c.row /\ cs[k].col = c.col THEN cs ELSE Append(cs, c)

\* lines 263-270: source (1)
RECURSIVE Source1(_, _, _, _)
Source1(hyps, bst, k, cs) ==
    IF k > Len(bst) THEN cs
    ELSE LET row == bst[k].row
             col == bst[k].col
         IN  Source1(hyps, bst, k + 1,
                     IF isValid(At(hyps, row), col)
                     THEN AddCand(cs, Candidate(row, col, bst[k].score, AdvanceObj(At(hyps, row), col)))
                     ELSE cs)

\* mx.ndarray.argmin(scores, axis=1) for one row: the first column of least score
ArgMin(scorerow) ==
    CHOOSE c \in Vocab :
        /\ \A d \in Vocab : At(scorerow, c) <= At(scorerow, d)
        /\ \A d \in Vocab : At(scorerow, d) = At(scorerow, c) => c <= d

\* lines 290-294
RECURSIVE AddNextones(_, _, _, _, _, _)
AddNextones(hyp, scorerow, row, nextones, k, cs) ==
    IF k > Len(nextones) THEN cs
    ELSE LET col == nextones[k]
         IN  AddNextones(hyp, scorerow, row, nextones, k + 1,
                         AddCand(cs, Candidate(row, col, At(scorerow, col), AdvanceObj(hyp, col))))

\* lines 275-294: sources (2) and (3)
RECURSIVE Source23(_, _, _, _, _)
Source23(hyps, inact, scs, row, cs) ==
    IF row >= BeamSize THEN cs
    ELSE IF At(inact, row) THEN Source23(hyps, inact, scs, row + 1, cs)
    ELSE LET hyp == At(hyps, row)
             col == ArgMin(At(scs, row))
             nextones == allowed(hyp) \o (IF isValid(hyp, col) THEN <<col>> ELSE <<>>)
         IN  Source23(hyps, inact, scs, row + 1,
                      AddNextones(hyp, At(scs, row), row, nextones, 1, cs))

\* sorted(candidates, key=attrgetter('score')): the iteration order of a set
\* is not specified, so candidates of equal score come in any order.  The
\* orders are built over the positions I of the candidates in cs.
RECURSIVE SortedOrders(_, _)
SortedOrders(cs, I) ==
    IF I = {} THEN {<<>>}
    ELSE LET least == {i \in I : \A j \in I : cs[i].score <= cs[j].score}
         IN  UNION {{<<i>> \o t : t \in SortedOrders(cs, I \ {i})} : i \in least}
AllSorted(cs) ==
    {[k \in 1..Len(cs) |-> cs[o[k]]] : o \in SortedOrders(cs, 1..Len(cs))}

\* lines 303-305
RECURSIVE Counts(_, _, _)
Counts(kbest, k, counts) ==
    IF k > Len(kbest) THEN counts
    ELSE LET bank == numMet(kbest[k].constraints)
         IN  Counts(kbest, k + 1, SetAt(counts, bank, At(counts, bank) + 1))

\* lines 315-322
RECURSIVE PruneLoose(_, _, _, _)
PruneLoose(kbest, k, counts, kept) ==
    IF k > Len(kbest) THEN kept
    ELSE LET bank == numMet(kbest[k].constraints)
             c2 == SetAt(counts, bank, At(counts, bank) - 1)
         IN  PruneLoose(kbest, k + 1, c2, IF At(c2, bank) >= -1 THEN Append(kept, kbest[k]) ELSE kept)
RECURSIVE Prune(_, _, _, _)
Prune(kbest, k, counts, kept) ==
    IF k > Len(kbest) THEN kept
    ELSE LET bank == numMet(kbest[k].constraints)
             c2 == SetAt(counts, bank, At(counts, bank) - 1)
         IN  Prune(kbest, k + 1, c2, IF At(c2, bank) >= 0 THEN Append(kept, kbest[k]) ELSE kept)

\* lines 325-327: repeat the last kept candidate
PadLast(kept, n) ==
    [k \in 1..(IF Len(kept) < n THEN n ELSE Len(kept)) |->
        IF k <= Len(kept) THEN kept[k] ELSE kept[Len(kept)]]

\* lines 329-332: the four parallel lists
Returned(padded) ==
    [rows |-> [k \in 1..Len(padded) |-> padded[k].row],
     cols |-> [k \in 1..Len(padded) |-> padded[k].col],
     scores |-> [k \in 1..Len(padded) |-> <<padded[k].score>>],
     constraints |-> [k \in 1..Len(padded) |-> padded[k].constraints]]

\* lines 303-333, from the padded sorted list on
TopkTail(nc, kbest) ==
    LET banks == get_bank_sizes(nc, BeamSize, Counts(kbest, 1, Repeat(0, nc + 1)))
    IN  IF banks.hangs
        THEN [pc |-> "hangs", new_kbest |-> kbest, bank_sizes |-> <<>>, pruned |-> <<>>, out |-> <<>>]
        ELSE LET kept == Prune(kbest, 1, banks.assigned, <<>>)
             IN  IF kept = <<>> /\ BeamSize > 0
                 THEN [pc |-> "raised", new_kbest |-> kbest, bank_sizes |-> banks.assigned,
                       pruned |-> kept, out |-> <<>>]
                 ELSE [pc |-> "returned", new_kbest |-> kbest, bank_sizes |-> banks.assigned,
                       pruned |-> kept, out |-> Returned(PadLast(kept, BeamSize))]

\* the whole of topk for one order of the sort: what it returns, or how it ends
TopkBody(hyps, sorted) ==
    LET nc == size(At(hyps, 0))
        null == NewNull
    IN  IF Len(sorted) < BeamSize
        THEN IF null.raised
             THEN [pc |-> "raised", new_kbest |-> sorted, bank_sizes |-> <<>>, pruned |-> <<>>,
                   out |-> <<>>]
             ELSE TopkTail(nc, sorted \o Repeat(Candidate(0, 0, Inf, null.obj), BeamSize - Len(sorted)))
        ELSE TopkTail(nc, sorted)

TopkOff ==
    /\ hypotheses = <<>>
    /\ inactive = <<>>
    /\ scores = <<>>
    /\ best = <<>>
    /\ new_kbest = <<>>
    /\ bank_sizes = <<>>
    /\ pruned = <<>>
    /\ out = <<>>
    /\ tpc = "off"

\* ---------------------------------------------------------------- the hypothesis machine
HypInit ==
    /\ cl \in ConstraintLists
    /\ heap = <<>>
    /\ cur = 0
    /\ hist = <<>>
    /\ hpc = "new"
    /\ BankOff
    /\ TopkOff

Construct ==
    /\ hpc = "new"
    /\ LET r == New(cl, EosId)
       IN  \/ /\ r.raised
              /\ hpc' = "raised"
              /\ UNCHANGED <<heap, cur>>
           \/ /\ ~r.raised
              /\ heap' = <<r.obj>>
              /\ cur' = 1
              /\ hpc' = "ready"
    /\ UNCHANGED <<cl, hist>>
    /\ UNCHANGED <<bvars, tvars>>

Advance ==
    /\ hpc = "ready"
    /\ Len(hist) < MaxSteps
    /\ \E word_id \in Vocab :
          LET r == advance(heap, cur, word_id)
          IN  /\ heap' = r.heap
              /\ cur' = r.ref
              /\ hist' = Append(hist, word_id)
    /\ UNCHANGED <<cl, hpc>>
    /\ UNCHANGED <<bvars, tvars>>

HypNext == Construct \/ Advance

Spec == HypInit /\ [][HypNext]_vars

\* ---------------------------------------------------------------- get_bank_sizes, statement by statement
HypOff ==
    /\ cl = <<>>
    /\ heap = <<>>
    /\ cur = 0
    /\ hist = <<>>
    /\ hpc = "off"

BankInit ==
    /\ HypOff
    /\ TopkOff
    /\ num_constraints \in 0..MaxConstraints
    /\ beam_size \in 1..MaxBeam
    /\ candidates \in [1..(num_constraints + 1) -> 0..MaxCand]
    /\ assigned = <<>>
    /\ bi = 0
    /\ deficit = 0
    /\ jpos = 0
    /\ bpc = "start"

\* lines 193-198
BankStart ==
    /\ bpc = "start"
    /\ assigned' = BaseAssigned(num_constraints, beam_size)
    /\ bi' = 0
    /\ bpc' = "for"
    /\ UNCHANGED <<num_constraints, beam_size, candidates, deficit, jpos>>
    /\ UNCHANGED <<hvars, tvars>>

\* lines 200-201 and 213: the next i of the outer loop, or the return
BankFor ==
    /\ bpc = "for"
    /\ IF bi < Len(assigned)
       THEN /\ deficit' = At(candidates, bi) - At(assigned, bi)
            /\ bpc' = "while"
       ELSE /\ deficit' = deficit
            /\ bpc' = "done"
    /\ UNCHANGED <<num_constraints, beam_size, candidates, assigned, bi, jpos>>
    /\ UNCHANGED <<hvars, tvars>>

\* line 202: the test of the while loop
BankWhile ==
    /\ bpc = "while"
    /\ IF deficit < 0
       THEN /\ jpos' = 0
            /\ bi' = bi
            /\ bpc' = "forj"
       ELSE /\ jpos' = jpos
            /\ bi' = bi + 1
            /\ bpc' = "for"
    /\ UNCHANGED <<num_constraints, beam_size, candidates, assigned, deficit>>
    /\ UNCHANGED <<hvars, tvars>>

\* lines 204-211: one round of the inner loop, or its end
BankForJ ==
    /\ bpc = "forj"
    /\ LET order == Order(bi, Len(assigned))
       IN  IF jpos < Len(order)
           THEN LET st == JStep(candidates, [deficit |-> deficit, assigned |-> assigned],
                                bi, At(order, jpos))
                IN  /\ deficit' = st.deficit
                    /\ assigned' = st.assigned
                    /\ jpos' = jpos + 1
                    /\ bpc' = bpc
           ELSE /\ bpc' = "while"
                /\ UNCHANGED <<deficit, assigned, jpos>>
    /\ UNCHANGED <<num_constraints, beam_size, candidates, bi>>
    /\ UNCHANGED <<hvars, tvars>>

BankNext == BankStart \/ BankFor \/ BankWhile \/ BankForJ

BankSpec == BankInit /\ [][BankNext]_vars

\* the interpreter runs the function's next statement
BankFair == BankSpec /\ WF_vars(BankNext)

\* ---------------------------------------------------------------- one call of topk
\* the constraint lists of the decoded sentence: no empty phrase, and no
\* constraint on word 0 (the padding word)
TopkLists == {ps \in UNION {ListsOf(k, TopkMaxSize) : k \in 0..MaxPhrases} :
                 \A k \in 1..Len(ps) : ps[k] # <<>> /\ \A i \in 1..Len(ps[k]) : ps[k][i] # 0}

\* the states advance reaches from the state the constructor makes
RECURSIVE Reach(_, _)
Reach(S, n) ==
    IF n = 0 THEN S
    ELSE Reach(S \cup {AdvanceObj(o, w) : o \in S, w \in Vocab}, n - 1)
HypStates(ps) == Reach({New(ps, EosId).obj}, TopkMaxSize + 1)

Cells(inact) == {c \in Rows \X Vocab : ~At(inact, c[1])}

\* a set of cells as a list in ascending order of score, then row, then column
RECURSIVE InOrder(_)
InOrder(S) ==
    IF S = {} THEN <<>>
    ELSE LET c == CHOOSE c \in S : \A d \in S :
                      \/ c.score < d.score
                      \/ c.score = d.score /\ c.row < d.row
                      \/ c.score = d.score /\ c.row = d.row /\ c.col <= d.col
         IN  <<c>> \o InOrder(S \ {c})

\* the lists the caller hands in as best_ids, best_word_ids, sequence_scores:
\* beam_size cells of least score among the rows that are active (any of the
\* cells that tie), with their scores, in ascending order of score
BestLists(inact, scs) ==
    LET cells == Cells(inact)
        n == Min(BeamSize, Cardinality(cells))
        cand(c) == [row |-> c[1], col |-> c[2], score |-> At(At(scs, c[1]), c[2])]
        all == {cand(c) : c \in cells}
    IN  {InOrder(sub) : sub \in {x \in SUBSET all :
            /\ Cardinality(x) = n
            /\ \A c \in x : \A d \in all \ x : c.score <= d.score}}

TopkInit ==
    /\ HypOff
    /\ BankOff
    /\ \E ps \in TopkLists : hypotheses \in [1..BeamSize -> HypStates(ps)]
    /\ inactive \in [1..BeamSize -> BOOLEAN]
    /\ scores \in [1..BeamSize -> [1..VocabSize -> 0..MaxScore]]
    /\ best \in BestLists(inactive, scores)
    /\ new_kbest = <<>>
    /\ bank_sizes = <<>>
    /\ pruned = <<>>
    /\ out = <<>>
    /\ tpc = "call"

Topk ==
    /\ tpc = "call"
    /\ \E cs \in {Source23(hypotheses, inactive, scores, 0, Source1(hypotheses, best, 1, <<>>))} :
       \E sorted \in AllSorted(cs) :
       \E r \in {TopkBody(hypotheses, sorted)} :
          /\ tpc' = r.pc
          /\ new_kbest' = r.new_kbest
          /\ bank_sizes' = r.bank_sizes
          /\ pruned' = r.pruned
          /\ out' = r.out
    /\ UNCHANGED <<hypotheses, inactive, scores, best>>
    /\ UNCHANGED <<hvars, bvars>>

TopkNext == Topk

TopkSpec == TopkInit /\ [][TopkNext]_vars

\* ---------------------------------------------------------------- properties of the hypothesis machine
Occurs(p, h) ==
    \E off \in 0..(Len(h) - Len(p)) : \A i \in 1..Len(p) : h[off + i] = p[i]

\* first position (0-based) of the phrase that contains position i
RECURSIVE PhraseStart(_, _)
PhraseStart(o, i) ==
    IF i = 0 \/ At(o.is_sequence, i - 1) = 0 THEN i ELSE PhraseStart(o, i - 1)

\* last position (0-based) of the phrase that contains position i
RECURSIVE PhraseEnd(_, _)
PhraseEnd(o, i) ==
    IF At(o.is_sequence, i) = 0 THEN i ELSE PhraseEnd(o, i + 1)

RECURSIVE AdvanceAll(_, _)
AdvanceAll(o, ws) ==
    IF ws = <<>> THEN o ELSE AdvanceAll(AdvanceObj(o, Head(ws)), Tail(ws))

Ready == hpc = "ready"
State == heap[cur]

\* C1: soundness of constraint tracking.  Whenever the state reached by feeding
\* the emitted words one by one to advance reports finished(), every phrase of
\* the constraint list occurs in the emitted words as a run of consecutive
\* words in phrase order.
C1_Soundness ==
    (Ready /\ finished(State)) => \A k \in 1..Len(cl) : Occurs(cl[k], hist)

\* a two-word phrase was completed although a word that matches nothing and a
\* word that abandoned a started phrase were emitted on the way
C1_Witness ==
    /\ Ready
    /\ finished(State)
    /\ \E k \in 1..Len(cl) : Len(cl[k]) >= 2
    /\ Len(hist) > size(State)

\* C2: in every state made by the constructor and any number of advance
\* calls, isValid(eos) is false when numNeeded() > 0 and true otherwise, and
\* isValid of every other word is true.
C2_IsValid ==
    Ready => \A r \in 1..Len(heap) :
                /\ isValid(heap[r], EosId) = ~(numNeeded(heap[r]) > 0)
                /\ \A w \in Vocab \ {EosId} : isValid(heap[r], w)

\* an advanced state with constraints outstanding, in which eos is refused
C2_Witness ==
    /\ Ready
    /\ Len(hist) >= 2
    /\ numMet(State) > 0
    /\ numNeeded(State) > 0
    /\ ~isValid(State, EosId)

\* C7: advancing from the constructed state on the words of every phrase,
\* phrase after phrase in the order of the constraint list, ends in a state
\* with finished() = TRUE and numNeeded() = 0.
C7_InOrderCompletes ==
    (Ready /\ hist = Flatten(cl)) => (finished(State) /\ numNeeded(State) = 0)

\* two phrases with the same first word, both fed in order
C7_Witness ==
    /\ Ready
    /\ hist = Flatten(cl)
    /\ Len(cl) = 2
    /\ Len(cl[1]) >= 1 /\ Len(cl[2]) >= 2
    /\ cl[1][1] = cl[2][1]
    /\ finished(State)

\* an advance step that abandons the phrase in progress
Abandons ==
    /\ Ready
    /\ hist' # hist
    /\ MidPhrase(State)
    /\ hist'[Len(hist')] # At(State.constraints, State.lastMet + 1)

\* C8: abandonment rollback.  An advance in a mid-phrase state on a word other
\* than the required one returns a state in which every position of the phrase
\* in progress is unmet, every position of every other phrase is as before and
\* lastMet = -1; advancing that state on the words of the phrase, in order from
\* its first word, marks the whole phrase met.
C8_Rollback ==
    [][Abandons =>
        LET old == heap[cur]
            new == heap'[cur']
            first == PhraseStart(old, old.lastMet)
            last == PhraseEnd(old, old.lastMet)
            phrase == SubSeq(old.constraints, first + 1, last + 1)
            again == AdvanceAll(new, phrase)
        IN  /\ \A i \in first..old.lastMet : At(new.met, i) = FALSE
            /\ \A i \in 0..(size(old) - 1) :
                  (i < first \/ i > last) => At(new.met, i) = At(old.met, i)
            /\ new.lastMet = -1
            /\ \A i \in first..last : At(again.met, i) = TRUE]_vars

\* a phrase abandoned after two of its words had been marked met
C8_Witness ==
    /\ Ready
    /\ \E k \in 1..(Len(heap) - 1) :
          /\ MidPhrase(heap[k])
          /\ heap[k].lastMet - PhraseStart(heap[k], heap[k].lastMet) >= 1
          /\ hist[k] # At(heap[k].constraints, heap[k].lastMet + 1)
          /\ heap[k + 1].lastMet = -1
          /\ numMet(heap[k + 1]) = numMet(heap[k]) - 2

\* C9: in every reachable state allowed() is exactly the one word
\* constraints[lastMet + 1] when the state is mid-phrase, allowed() is empty
\* exactly when finished() holds, and so an unfinished state that is not
\* mid-phrase offers at least one word.
C9_Allowed ==
    Ready => \A r \in 1..Len(heap) :
                LET o == heap[r]
                IN  /\ MidPhrase(o) => allowed(o) = <<At(o.constraints, o.lastMet + 1)>>
                    /\ (allowed(o) = <<>>) <=> finished(o)
                    /\ (~finished(o) /\ ~MidPhrase(o)) => Len(allowed(o)) >= 1

\* an unfinished state right after a phrase was abandoned, one earlier state
\* mid-phrase
C9_Witness ==
    /\ Ready
    /\ Len(heap) >= 3
    /\ MidPhrase(heap[Len(heap) - 1])
    /\ ~MidPhrase(State) /\ ~finished(State)
    /\ State.lastMet = -1
    /\ Len(allowed(State)) >= 1

\* C10: advance never mutates its receiver.  Every object that exists before an
\* advance call is the same after it, and of two advances from one state on
\* two words the second returns what it returns when it is made first.
C10_ReceiverUnchanged ==
    [][Ready =>
        /\ \A r \in 1..Len(heap) : r <= Len(heap') /\ heap'[r] = heap[r]
        /\ \A t2 \in Vocab :
              LET b == advance(heap', cur, t2)
                  c == advance(heap, cur, t2)
              IN  b.heap[b.ref] = c.heap[c.ref]]_vars

\* advances that matched a word, continued a phrase and abandoned it, each
\* returning a state that differs from its receiver
C10_Witness ==
    /\ Ready
    /\ Len(heap) >= 4
    /\ \A k \in 1..3 : heap[k + 1] # heap[k]
    /\ MidPhrase(heap[3])
    /\ heap[4].lastMet = -1

\* ---------------------------------------------------------------- properties of get_bank_sizes
\* C5: the list get_bank_sizes returns has one entry per bank, its entries sum
\* to beam_size and none is negative, for a beam at least as large as the
\* number of banks and for a smaller one.
C5_Allocation ==
    bpc = "done" =>
        /\ Len(assigned) = num_constraints + 1
        /\ SumSeq(assigned) = beam_size
        /\ \A k \in 1..Len(assigned) : assigned[k] >= 0

\* a returned allocation that redistribution changed, the beam no smaller than
\* the number of banks
C5_Witness ==
    /\ bpc = "done"
    /\ num_constraints + 1 <= beam_size
    /\ assigned # BaseAssigned(num_constraints, beam_size)
    /\ \E k \in 1..Len(assigned) : assigned[k] = 0

\* C6: get_bank_sizes terminates on every input with non-negative candidate
\* counts, also when the counts sum to less than beam_size.
C6_Terminates == <>(bpc = "done")

\* ---------------------------------------------------------------- properties of topk
\* C3: the end-of-sequence word is never selected while constraints remain
\* outstanding.  Every entry of the lists topk returns, padding left aside, is
\* a (row, column) with hypotheses[row].isValid(column), whichever of the three
\* sources proposed it.
C3_ValidSelection ==
    tpc = "returned" =>
        \A k \in 1..Len(out.rows) :
            out.constraints[k].cls # "NullHypothesis" =>
                isValid(At(hypotheses, out.rows[k]), out.cols[k])

\* C4: topk always returns row, column, score and state lists of length
\* beam_size, also when the three sources give fewer than beam_size
\* candidates; it never ends in an error.
C4_AlwaysReturns ==
    tpc # "call" =>
        /\ tpc = "returned"
        /\ Len(out.rows) = BeamSize
        /\ Len(out.cols) = BeamSize
        /\ Len(out.scores) = BeamSize
        /\ Len(out.constraints) = BeamSize

PhraseSpans(o) ==
    {<<i, PhraseEnd(o, i)>> : i \in {k \in 0..(size(o) - 1) : NonInitial(o, k) = 0}}

\* C12: constraints can be met in any order.  From a reachable state that is
\* not mid-phrase, advancing on the words of a phrase none of whose positions
\* is met, consecutively and in order, marks every position of that phrase
\* met, whatever the other phrases are.
C12_AnyOrder ==
    (Ready /\ ~MidPhrase(State)) =>
        \A sp \in PhraseSpans(State) :
            (\A i \in sp[1]..sp[2] : At(State.met, i) = FALSE) =>
                LET after == AdvanceAll(State, SubSeq(State.constraints, sp[1] + 1, sp[2] + 1))
                IN  \A i \in sp[1]..sp[2] : At(after.met, i) = TRUE

\* ---------------------------------------------------------------- advance outside a phrase, structure, monotonicity
\* an advance has just been taken from a state that is not mid-phrase
StepsOutside == Ready /\ hist' # hist /\ ~MidPhrase(State)

\* positions of o that are unmet, start a phrase and carry word w
Matching(o, w) ==
    {i \in 0..(size(o) - 1) :
        /\ At(o.constraints, i) = w
        /\ At(o.met, i) = FALSE
        /\ (i = 0 \/ At(o.is_sequence, i - 1) = 0)}

Least(S) == CHOOSE i \in S : \A k \in S : i <= k

\* C16: frame conditions of advance outside a phrase.  When the word equals no
\* unmet eligible position the returned state has the same met and lastMet;
\* otherwise exactly the first such position in flattened order becomes met,
\* lastMet becomes that position and every other met entry is unchanged.
C16_Frame ==
    [][StepsOutside =>
        LET old == heap[cur]
            new == heap'[cur']
            m == Matching(old, hist'[Len(hist')])
        IN  IF m = {}
            THEN new.met = old.met /\ new.lastMet = old.lastMet
            ELSE /\ new.lastMet = Least(m)
                 /\ \A i \in 0..(size(old) - 1) :
                       At(new.met, i) = (IF i = Least(m) THEN TRUE ELSE At(old.met, i))]_vars

\* the last advance was taken outside a phrase, after an earlier advance, on
\* a word that two unmet eligible positions carried
C16_Witness ==
    /\ Ready
    /\ cur >= 3
    /\ ~MidPhrase(heap[cur - 1])
    /\ Cardinality(Matching(heap[cur - 1], hist[cur - 1])) >= 2
    /\ State.lastMet = Least(Matching(heap[cur - 1], hist[cur - 1]))
    /\ numMet(State) = 1

\* the phrase <<first, last>> of o has its first position met and its last not
PartlyMet(o, sp) == At(o.met, sp[1]) = TRUE /\ At(o.met, sp[2]) = FALSE

\* C17: structure of every reachable state.  Within each phrase the met
\* positions form a prefix; a phrase is partly met only when the state is
\* mid-phrase and lastMet is the last met position of that phrase, so at most
\* one phrase is partly met; lastMet is -1 or a position that is met.
C17_Structure ==
    Ready =>
        LET o == State
        IN  /\ \A i \in 1..(size(o) - 1) :
                  (At(o.is_sequence, i - 1) = 1 /\ At(o.met, i) = TRUE) => At(o.met, i - 1) = TRUE
            /\ \A sp \in PhraseSpans(o) :
                  PartlyMet(o, sp) =>
                      /\ MidPhrase(o)
                      /\ o.lastMet \in sp[1]..(sp[2] - 1)
                      /\ At(o.met, o.lastMet) = TRUE
                      /\ At(o.met, o.lastMet + 1) = FALSE
            /\ Cardinality({sp \in PhraseSpans(o) : PartlyMet(o, sp)}) <= 1
            /\ o.lastMet = -1 \/ (o.lastMet \in 0..(size(o) - 1) /\ At(o.met, o.lastMet) = TRUE)

\* a state in the middle of a phrase, two of its words met, after a phrase
\* had been abandoned or another word emitted
C17_Witness ==
    /\ Ready
    /\ MidPhrase(State)
    /\ Len(hist) = 3
    /\ numMet(State) = 2
    /\ \E sp \in PhraseSpans(State) : PartlyMet(State, sp) /\ State.lastMet = sp[1] + 1

\* an advance has just been taken
Steps == Ready /\ hist' # hist

\* every position of the phrase <<first, last>> of o is met
FullyMet(o, sp) == \A i \in sp[1]..sp[2] : At(o.met, i) = TRUE

\* C18: completed constraints are permanent.  An advance never unmeets a
\* position of a fully met phrase; numMet() decreases only when a phrase in
\* progress is abandoned, and then by exactly the number of met positions of
\* that phrase; a finished state stays finished.
C18_Permanent ==
    [][Steps =>
        LET old == heap[cur]
            new == heap'[cur']
        IN  /\ \A sp \in PhraseSpans(old) : FullyMet(old, sp) => FullyMet(new, sp)
            /\ numMet(new) < numMet(old) =>
                  /\ Abandons
                  /\ numMet(old) - numMet(new) = old.lastMet - PhraseStart(old, old.lastMet) + 1
            /\ finished(old) => finished(new)]_vars

\* a phrase was abandoned while another phrase was fully met, which stayed met
C18_Witness ==
    /\ Ready
    /\ cur >= 3
    /\ MidPhrase(heap[cur - 1])
    /\ numMet(State) < numMet(heap[cur - 1])
    /\ \E sp \in PhraseSpans(State) : FullyMet(State, sp)

\* ---------------------------------------------------------------- redistribution order
\* C14: nearest-first redistribution in get_bank_sizes.  A bank j receives
\* slots from the short bank i only when every bank strictly closer to i, and
\* every lower bank at the same distance, has no spare capacity left; each
\* transfer is the lesser of the remaining shortfall of i and
\* candidates[j] - assigned[j].  For one constraint, a beam of 4 and candidate
\* counts 1 and 5 the function returns 1 and 3.
C14_NearestFirst ==
    [][/\ (bpc = "forj" /\ assigned' # assigned) =>
            \E j \in (0..(Len(assigned) - 1)) \ {bi} :
                LET transfer == At(assigned', j) - At(assigned, j)
                IN  /\ transfer > 0
                    /\ transfer = Min(-deficit, At(candidates, j) - At(assigned, j))
                    /\ assigned' = SetAt(SetAt(assigned, bi, At(assigned, bi) - transfer),
                                         j, At(assigned, j) + transfer)
                    /\ deficit' = deficit + transfer
                    /\ \A k \in (0..(Len(assigned) - 1)) \ {bi} :
                          (\/ Abs(k - bi) < Abs(j - bi)
                           \/ (Abs(k - bi) = Abs(j - bi) /\ k < j)) =>
                              At(assigned, k) >= At(candidates, k)
       /\ (bpc' = "done" /\ num_constraints = 1 /\ beam_size = 4 /\ candidates = <<1, 5>>) =>
              assigned' = <<1, 3>>]_vars

\* a returned allocation in which the last bank gave slots to the bank at
\* distance two after filling the bank next to it
C14_Witness ==
    /\ bpc = "done"
    /\ Len(assigned) = 3
    /\ candidates[3] = 0
    /\ assigned[3] = 0
    /\ assigned[2] > BaseAssigned(num_constraints, beam_size)[2]
    /\ assigned[2] = candidates[2]
    /\ assigned[1] > BaseAssigned(num_constraints, beam_size)[1]

\* ---------------------------------------------------------------- pruning into banks
\* the bank of a candidate: the number of constraint words its state has met
BankOf(c) == numMet(c.constraints)

\* the candidate at place i of the sorted list was kept by the pruning loop
Kept(i) == \E k \in 1..Len(pruned) : pruned[k] = new_kbest[i]

\* C13: per-bank caps with best-first retention in topk.  Among the kept
\* candidates at most allocated[b] belong to bank b; a candidate of bank b is
\* dropped only if allocated[b] candidates of bank b that precede it in
\* ascending order of score were kept; the kept candidates come in
\* non-decreasing order of score.
C13_BankCaps ==
    tpc = "returned" =>
        /\ \A b \in 0..(Len(bank_sizes) - 1) :
              Cardinality({k \in 1..Len(pruned) : BankOf(pruned[k]) = b}) <= At(bank_sizes, b)
        /\ \A k \in 1..Len(pruned) : \E i \in 1..Len(new_kbest) : new_kbest[i] = pruned[k]
        /\ \A i \in 1..Len(new_kbest) :
              ~Kept(i) =>
                  Cardinality({j \in 1..(i - 1) :
                                  BankOf(new_kbest[j]) = BankOf(new_kbest[i]) /\ Kept(j)})
                      = At(bank_sizes, BankOf(new_kbest[i]))
        /\ \A i \in 1..(Len(new_kbest) - 1) : new_kbest[i].score <= new_kbest[i + 1].score
        /\ \A k \in 1..(Len(pruned) - 1) : pruned[k].score <= pruned[k + 1].score

\* a call in which a candidate was dropped although a candidate of greater
\* score, of another bank, was kept
C13_Witness ==
    /\ tpc = "returned"
    /\ \E i \in 1..Len(new_kbest) : \E k \in 1..Len(pruned) :
          /\ ~Kept(i)
          /\ new_kbest[i].score < pruned[k].score
          /\ BankOf(new_kbest[i]) # BankOf(pruned[k])

\* C15: deduplication of candidates.  The kept candidates, before the beam is
\* padded by repetition and the padding sentinel left aside, hold no two
\* entries with the same (row, column), also when several sources, or
\* allowed() several times, proposed the pair.
C15_NoDuplicates ==
    tpc = "returned" =>
        \A k, l \in 1..Len(pruned) :
            (/\ k # l
             /\ pruned[k].constraints.cls # "NullHypothesis"
             /\ pruned[l].constraints.cls # "NullHypothesis") =>
                <<pruned[k].row, pruned[k].col>> # <<pruned[l].row, pruned[l].col>>

\* a kept pair that came in with the best lists, is a word allowed() lists
\* for its row and is the least-score column of its row
C15_Witness ==
    /\ tpc = "returned"
    /\ \E k \in 1..Len(pruned) : \E b \in 1..Len(best) :
          /\ best[b].row = pruned[k].row
          /\ best[b].col = pruned[k].col
          /\ isValid(At(hypotheses, pruned[k].row), pruned[k].col)
          /\ \E a \in 1..Len(allowed(At(hypotheses, pruned[k].row))) :
                allowed(At(hypotheses, pruned[k].row))[a] = pruned[k].col
          /\ ArgMin(At(scores, pruned[k].row)) = pruned[k].col

\* get_bank_sizes stepped on its own inputs, or one call of topk
PruneInit == BankInit \/ TopkInit
PruneNext == BankNext \/ TopkNext
PruneSpec == PruneInit /\ [][PruneNext]_vars

\* C19: allocation never exceeds availability once the beam is filled.  When
\* the candidate counts sum to at least beam_size, get_bank_sizes returns
\* assigned[b] <= candidates[b] for every bank; in topk the pruning loop then
\* keeps exactly bank_sizes[b] candidates of each bank b, beam_size in all,
\* and the final padding by repetition adds nothing.
C19_ExactAllocation ==
    /\ (bpc = "done" /\ SumSeq(candidates) >= beam_size) =>
           \A k \in 1..Len(assigned) : assigned[k] <= candidates[k]
    /\ tpc = "returned" =>
           LET counts == Counts(new_kbest, 1, Repeat(0, Len(bank_sizes)))
           IN  /\ SumSeq(counts) >= BeamSize
               /\ \A b \in 1..Len(bank_sizes) : bank_sizes[b] <= counts[b]
               /\ \A b \in 0..(Len(bank_sizes) - 1) :
                     Cardinality({k \in 1..Len(pruned) : BankOf(pruned[k]) = b}) = At(bank_sizes, b)
               /\ Len(pruned) = BeamSize
               /\ out = Returned(pruned)

\* a call of topk with more candidates than the beam holds, in which slots
\* were moved between banks
C19_Witness ==
    /\ tpc = "returned"
    /\ Len(new_kbest) > BeamSize
    /\ bank_sizes # BaseAssigned(Len(bank_sizes) - 1, BeamSize)

====
